---- MODULE Spec2Model ----
(***************************************************************************)
(* The audio paths of src/App.tsx and src/components/VoiceProfileCard.tsx.  *)
(*                                                                         *)
(* The live relay: the session lifecycle (startLiveSession /               *)
(* stopLiveSession and the transport callbacks) and the playback           *)
(* scheduling done by the onmessage callback on the shared refs            *)
(* nextStartTimeRef (the cursor) and sourcesRef (the active sources).      *)
(* The WAV container writer createWavBlob, byte by byte.  One-shot         *)
(* playback: handleVoiceover and runCalibrationTest.                       *)
(*                                                                         *)
(* Time is counted in whole ticks of the output AudioContext's clock; a    *)
(* chunk's duration is a whole number of ticks.  Each event-loop task (a   *)
(* click handler, a transport callback, the continuation of an await) is   *)
(* one action.                                                             *)
(***************************************************************************)
EXTENDS Integers, Sequences, FiniteSets, TLC

\* Bounds of the model.
MaxChunks == 2      \* audio chunks delivered over all sessions
MaxTime == 2        \* last tick of the device clock
MaxSessions == 1    \* startLiveSession invocations (one more under SpecRestart)
MaxDur == 2         \* longest decoded chunk, in ticks
MaxPayload == 3     \* longest PCM payload handed to createWavBlob, in bytes
MaxOneShots == 2    \* one-shot sources started by the Studio and the profile card
MaxIds == 3         \* distinct voice profile ids
MaxSaves == 2       \* saveCurrentProfile calls that reach the store

VARIABLES
    status,                 \* ConnectionStatus: DISCONNECTED, CONNECTING, CONNECTED, ERROR
    liveSessionRef,         \* 0 = null, else the session whose handle is stored
    nextStartTimeRef,       \* the playback cursor
    sourcesRef,             \* set of source handles (chunk indices)
    micStreamRef,           \* TRUE once the microphone stream is held
    outputAudioContextRef,  \* TRUE once the output AudioContext exists
    currentTime,            \* ctx.currentTime of the output AudioContext
    sessions,               \* one record per startLiveSession invocation
    chunks,                 \* one record per onmessage invocation carrying audio
    clockLed,               \* since the last reset, Math.max took the clock's side
    pcmData,                \* createWavBlob's first argument, a sequence of bytes
    sampleRate,             \* createWavBlob's second argument, as two 16-bit halves
    wavBlob,                \* the bytes of the Blob createWavBlob returned, << >> before
    isProcessing,           \* App state, line 21
    detectedEmotion,        \* App state, line 22: "null" or "emotion"
    lastAudioUrl,           \* App state, line 23: << >> = null, else the Blob's bytes
    voiceoverCall,          \* where handleVoiceover stands: idle, or the await it is at
    isTesting,              \* VoiceProfileCard state, line 18
    calibrationCall,        \* where runCalibrationTest stands: idle, or the await it is at
    oneShotSources,         \* sources started by source.start() outside the live relay
    voiceoverText,          \* App state, line 20: the script in the Studio's textarea
    activeStyles,           \* App state, line 30: a sequence of VoiceStyle values
    toggled,                \* the argument of the last toggleStyle call, "none" before
    savedProfiles,          \* VoiceProfileCard state, line 21: a sequence of profiles
    localStorage,           \* the text stored under STORAGE_KEY, << >> when there is none
    profile,                \* the card's profile prop: the id of the current profile, 0 = null
    dateNow,                \* Date.now()
    mounted                 \* the effect of lines 22-32 has run

liveVars == << status, liveSessionRef, nextStartTimeRef, sourcesRef, micStreamRef,
               outputAudioContextRef, currentTime, sessions, chunks, clockLed >>

wavVars == << pcmData, sampleRate, wavBlob >>

studioVars == << isProcessing, detectedEmotion, lastAudioUrl, voiceoverCall,
                 isTesting, calibrationCall, oneShotSources, voiceoverText >>

\* The state of the profile registry.
profileVars == << savedProfiles, localStorage, profile, dateNow, mounted >>

\* The state of the style buttons and of the profile registry.
panelVars == << activeStyles, toggled, profileVars >>

\* What no step of the live relay reads or writes.
nonLiveVars == << wavVars, studioVars, panelVars >>

vars == << liveVars, wavVars, studioVars, panelVars >>

\* A chunk decodes to the shortest or to the longest duration.
Durations == {1, MaxDur}

Max(a, b) == IF a >= b THEN a ELSE b

----------------------------------------------------------------------------
\* Pure pieces of the onmessage handler.

\* line 114 without the Math.max: the cursor set to the device clock
CursorAtArrivalClockOnly(cursor, now) == now

\* line 114 with Math.min in place of Math.max
CursorAtArrivalMin(cursor, now) == IF cursor <= now THEN cursor ELSE now

\* line 114: nextStartTimeRef.current = Math.max(nextStartTimeRef.current, ctx.currentTime)
CursorAtArrival(cursor, now) == Max(cursor, now)

\* line 120, the cursor left where it was
AdvanceCursorSkip(cursor, dur) == cursor

\* line 120 with = in place of +=
AdvanceCursorAssign(cursor, dur) == dur

\* line 120: nextStartTimeRef.current += audioBuffer.duration
AdvanceCursor(cursor, dur) == cursor + dur

\* AudioBufferSourceNode.start(when) called at device time now: a `when` in
\* the past begins at once.
Begin(when, now) == Max(when, now)

\* The source is producing sound during the tick that begins at instant t.
SoundingAt(c, t) == c.st = "playing" /\ c.begin <= t /\ t < c.begin + c.dur

\* The source has played its buffer to the end.
Finished(c) == c.st = "playing" /\ c.begin + c.dur <= currentTime

----------------------------------------------------------------------------
LiveInit ==
    /\ status = "DISCONNECTED"
    /\ liveSessionRef = 0
    /\ nextStartTimeRef = 0
    /\ sourcesRef = {}
    /\ micStreamRef = FALSE
    /\ outputAudioContextRef = FALSE
    /\ currentTime = 0
    /\ sessions = << >>
    /\ chunks = << >>
    /\ clockLed = FALSE

\* enum VoiceStyle (src/types.ts lines 13-22).
NEUTRAL == "Neutral"
VoiceStyle == { NEUTRAL, "Advertising", "Horror", "Emotional", "Happy",
                "Narrative", "Whisper", "Combination" }

\* line 30: useState<VoiceStyle[]>([VoiceStyle.NEUTRAL])
StylesInit ==
    /\ activeStyles = << NEUTRAL >>
    /\ toggled = "none"

\* The profile card before its first effect, with nothing in the store.
ProfilesIdle ==
    /\ savedProfiles = << >>
    /\ localStorage = << >>
    /\ profile = 0
    /\ dateNow = 0
    /\ mounted = FALSE

PanelInit == StylesInit /\ ProfilesIdle

\* No one-shot playback is under way and none has happened.
StudioInit ==
    /\ isProcessing = FALSE
    /\ detectedEmotion = "null"
    /\ lastAudioUrl = << >>
    /\ voiceoverCall = "idle"
    /\ isTesting = FALSE
    /\ calibrationCall = "idle"
    /\ oneShotSources = 0
    /\ voiceoverText = ""

\* An invocation whose session is over and whose call has returned, or whose
\* `await sessionPromise` will never settle.
Dead == [call |-> "done", conn |-> "closed"]

\* ai.live.connect(...) has been called: the session exists and is connecting,
\* the caller is suspended at `await sessionPromise`.
Connecting == [call |-> "promise", conn |-> "connecting"]

\* The session is over.  A call still suspended at line 134 resumes only if
\* the connection had opened, which is when the promise resolved.
Ended(s) == IF s.call = "promise" /\ s.conn = "open"
              THEN [s EXCEPT !.conn = "closed"]
              ELSE Dead

\* A handler that threw, a source that was stopped, a source that had ended
\* when stop() was called on it: nothing of it acts again.
Inert(st) == [sess |-> 0, dur |-> 0, st |-> st, when |-> 0, begin |-> 0]

\* The Live Relay start button (lines 342-346): shown unless CONNECTED,
\* disabled while CONNECTING.  startLiveSession(false), lines 98-106, up to its
\* first await.
StartLiveSession(limit) ==
    /\ status \notin {"CONNECTED", "CONNECTING"}
    /\ Len(sessions) < limit
    /\ status' = "CONNECTING"
    /\ IF micStreamRef
         THEN /\ sessions' = Append(sessions, Connecting)
              /\ outputAudioContextRef' = TRUE
         ELSE /\ sessions' = Append(sessions, [call |-> "mic", conn |-> "none"])
              /\ UNCHANGED outputAudioContextRef
    /\ UNCHANGED << liveSessionRef, nextStartTimeRef, sourcesRef, micStreamRef,
                    currentTime, chunks, clockLed,
                    nonLiveVars >>

\* getUserMedia resolves (line 103); lines 104-106 run and the call suspends
\* at `await sessionPromise`.
MicGranted ==
    \E i \in DOMAIN sessions :
        /\ sessions[i].call = "mic"
        /\ micStreamRef' = TRUE
        /\ outputAudioContextRef' = TRUE
        /\ sessions' = [sessions EXCEPT ![i] = Connecting]
        /\ UNCHANGED << status, liveSessionRef, nextStartTimeRef, sourcesRef,
                        currentTime, chunks, clockLed,
                        nonLiveVars >>

\* line 135 with a teardown of the scheduler in the catch
CatchTearsDown ==
    /\ status' = "ERROR"
    /\ liveSessionRef' = 0
    /\ nextStartTimeRef' = 0
    /\ sourcesRef' = {}

\* line 135: catch (err) { setStatus(ConnectionStatus.ERROR); }
Catch ==
    /\ status' = "ERROR"
    /\ UNCHANGED << liveSessionRef, nextStartTimeRef, sourcesRef >>

\* getUserMedia rejects: the catch of line 135.
MicDenied ==
    \E i \in DOMAIN sessions :
        /\ sessions[i].call = "mic"
        /\ Catch
        /\ sessions' = [sessions EXCEPT ![i] = Dead]
        /\ UNCHANGED << micStreamRef, outputAudioContextRef, currentTime,
                        chunks, clockLed,
                        nonLiveVars >>

\* The connect promise rejects before the session opened: the catch of line 135.
ConnectRejected ==
    \E i \in DOMAIN sessions :
        /\ sessions[i] = Connecting
        /\ Catch
        /\ sessions' = [sessions EXCEPT ![i] = Dead]
        /\ UNCHANGED << micStreamRef, outputAudioContextRef, currentTime,
                        chunks, clockLed,
                        nonLiveVars >>

\* callbacks.onopen (line 109).
OnOpen ==
    \E i \in DOMAIN sessions :
        /\ sessions[i].conn = "connecting"
        /\ status' = "CONNECTED"
        /\ sessions' = [sessions EXCEPT ![i].conn = "open"]
        /\ UNCHANGED << liveSessionRef, nextStartTimeRef, sourcesRef,
                        micStreamRef, outputAudioContextRef, currentTime,
                        chunks, clockLed,
                        nonLiveVars >>

\* The continuation of line 134: liveSessionRef.current = await sessionPromise.
\* The promise is resolved once the connection has opened.
SessionResolved ==
    \E i \in DOMAIN sessions :
        /\ sessions[i].call = "promise"
        /\ sessions[i].conn \in {"open", "closed"}
        /\ liveSessionRef' = i
        /\ sessions' = [sessions EXCEPT ![i].call = "done"]
        /\ UNCHANGED << status, nextStartTimeRef, sourcesRef, micStreamRef,
                        outputAudioContextRef, currentTime, chunks, clockLed,
                        nonLiveVars >>

\* callbacks.onerror (line 124): the transport failed, the session is over.
OnError ==
    \E i \in DOMAIN sessions :
        /\ sessions[i].conn \in {"connecting", "open"}
        /\ status' = "ERROR"
        /\ sessions' = [sessions EXCEPT ![i] = Ended(@)]
        /\ UNCHANGED << liveSessionRef, nextStartTimeRef, sourcesRef,
                        micStreamRef, outputAudioContextRef, currentTime,
                        chunks, clockLed,
                        nonLiveVars >>

\* callbacks.onclose (line 125): the remote end closed the session, or the
\* close requested by stopLiveSession has completed.
OnClose ==
    \E i \in DOMAIN sessions :
        /\ sessions[i].conn \in {"connecting", "open", "closing"}
        /\ status' = "DISCONNECTED"
        /\ sessions' = [sessions EXCEPT ![i] = Ended(@)]
        /\ UNCHANGED << liveSessionRef, nextStartTimeRef, sourcesRef,
                        micStreamRef, outputAudioContextRef, currentTime,
                        chunks, clockLed,
                        nonLiveVars >>

\* callbacks.onmessage, lines 110-115, for a message that carries audio: the
\* handler runs up to `await decodeAudioData(...)`.  (A message without audio
\* changes nothing.)
OnMessage ==
    \E i \in DOMAIN sessions :
        /\ sessions[i].conn = "open"
        /\ outputAudioContextRef
        /\ Len(chunks) < MaxChunks
        /\ nextStartTimeRef' = CursorAtArrival(nextStartTimeRef, currentTime)
        /\ clockLed' = (clockLed \/ currentTime > nextStartTimeRef)
        /\ chunks' = Append(chunks, [sess |-> i, dur |-> 0, st |-> "decoding",
                                     when |-> 0, begin |-> 0])
        /\ UNCHANGED << status, liveSessionRef, sourcesRef, micStreamRef,
                        outputAudioContextRef, currentTime, sessions,
                        nonLiveVars >>

\* callbacks.onmessage, lines 110-115, for a message whose audio is malformed:
\* decode(base64Audio) is evaluated in the same task as line 114, it throws and
\* the handler's promise rejects.
OnMessageDecodeThrows ==
    \E i \in DOMAIN sessions :
        /\ sessions[i].conn = "open"
        /\ outputAudioContextRef
        /\ Len(chunks) < MaxChunks
        /\ nextStartTimeRef' = CursorAtArrival(nextStartTimeRef, currentTime)
        /\ clockLed' = (clockLed \/ currentTime > nextStartTimeRef)
        /\ chunks' = Append(chunks, Inert("failed"))
        /\ UNCHANGED << status, liveSessionRef, sourcesRef, micStreamRef,
                        outputAudioContextRef, currentTime, sessions,
                        nonLiveVars >>

\* The handlers suspended at line 115.
Suspended == { k \in DOMAIN chunks : chunks[k].st \in {"decoding", "orphaned"} }

\* line 121 left out
SourcesAfterStartUntracked(k) == sourcesRef

\* line 121: sourcesRef.current.add(source)
SourcesAfterStart(k) == sourcesRef \cup {k}

\* The continuation of line 115, lines 116-121: the decode of some suspended
\* handler is done, in whatever order; d is audioBuffer.duration.
DecodeDone ==
    \E k \in Suspended, d \in Durations :
        /\ chunks' = [chunks EXCEPT ![k].st = "playing",
                                    ![k].dur = d,
                                    ![k].when = nextStartTimeRef,
                                    ![k].begin = Begin(nextStartTimeRef, currentTime)]
        /\ nextStartTimeRef' = AdvanceCursor(nextStartTimeRef, d)
        /\ sourcesRef' = SourcesAfterStart(k)
        /\ UNCHANGED << status, liveSessionRef, micStreamRef,
                        outputAudioContextRef, currentTime, sessions, clockLed,
                        nonLiveVars >>

\* decodeAudioData rejects (line 115): the handler's promise rejects, nothing
\* after line 115 runs.
DecodeFails ==
    \E k \in Suspended :
        /\ chunks' = [chunks EXCEPT ![k] = Inert("failed")]
        /\ UNCHANGED << status, liveSessionRef, nextStartTimeRef, sourcesRef,
                        micStreamRef, outputAudioContextRef, currentTime,
                        sessions, clockLed,
                        nonLiveVars >>

\* lines 92-93 with an exception of s.stop() escaping the forEach
SourcesAfterStopThrowing(failing) == IF failing = {} THEN {} ELSE sourcesRef

\* lines 92-93: every stop is wrapped in try/catch, then sourcesRef.current.clear()
SourcesAfterStop(failing) == {}

\* The sources whose stop() may throw: handles that already finished playing.
MayFailToStop == { k \in sourcesRef : Finished(chunks[k]) }

\* line 94 behind an early return taken when there is no source to stop
CursorAfterStopEarlyReturn == IF sourcesRef = {} THEN nextStartTimeRef ELSE 0

\* line 94: nextStartTimeRef.current = 0
CursorAfterStop == 0

\* stopLiveSession, lines 90-96, whoever calls it.  failing = the sources whose
\* stop() throws: they had ended already.  The handlers suspended in decode at
\* this moment are marked as orphaned.
StopLiveSessionCall ==
    /\ \E failing \in SUBSET MayFailToStop :
          /\ chunks' = [k \in DOMAIN chunks |->
                          IF k \in failing
                            THEN Inert("ended")
                          ELSE IF k \in sourcesRef
                            THEN Inert("stopped")
                          ELSE IF chunks[k].st = "decoding"
                            THEN [chunks[k] EXCEPT !.st = "orphaned"]
                          ELSE chunks[k]]
          /\ sourcesRef' = SourcesAfterStop(failing)
    /\ IF liveSessionRef # 0
         THEN sessions' = [sessions EXCEPT ![liveSessionRef].conn =
                              IF @ \in {"connecting", "open"} THEN "closing" ELSE @]
         ELSE UNCHANGED sessions
    /\ liveSessionRef' = 0
    /\ nextStartTimeRef' = CursorAfterStop
    /\ clockLed' = FALSE
    /\ status' = "DISCONNECTED"
    /\ UNCHANGED << micStreamRef, outputAudioContextRef, currentTime,
                    nonLiveVars >>

\* The Sever Link button (lines 342-343), shown while CONNECTED.
StopLiveSession == status = "CONNECTED" /\ StopLiveSessionCall

\* The output AudioContext's clock advances by one tick.
Tick ==
    /\ outputAudioContextRef
    /\ currentTime < MaxTime
    /\ currentTime' = currentTime + 1
    /\ UNCHANGED << status, liveSessionRef, nextStartTimeRef, sourcesRef,
                    micStreamRef, outputAudioContextRef, sessions, chunks,
                    clockLed,
                    nonLiveVars >>

\* Every step but the click on the start button.
Events ==
    \/ MicGranted
    \/ MicDenied
    \/ ConnectRejected
    \/ OnOpen
    \/ SessionResolved
    \/ OnError
    \/ OnClose
    \/ OnMessage
    \/ OnMessageDecodeThrows
    \/ DecodeDone
    \/ DecodeFails
    \/ StopLiveSession
    \/ Tick

----------------------------------------------------------------------------
\* createWavBlob (lines 194-215).  A byte is a number in 0..255.  A value
\* written by setUint32 is held as two 16-bit halves, [hi, lo] standing for
\* hi * 65536 + lo, so that the whole unsigned 32-bit range is covered.

Half == 65536

\* A number below 2^31 as two halves.
Halves(n) == [hi |-> n \div Half, lo |-> n % Half]

\* sampleRate * 2 truncated to 32 bits, as setUint32 stores it.
Twice(w) == [hi |-> (2 * w.hi + (2 * w.lo) \div Half) % Half, lo |-> (2 * w.lo) % Half]

\* DataView.setUint16(offset, n, true) / setUint32(offset, w, true): the bytes
\* written, least significant first.
Uint16LE(n) == << n % 256, (n \div 256) % 256 >>
Uint32LE(w) == Uint16LE(w.lo) \o Uint16LE(w.hi)

\* The char codes written by writeString (lines 197-199).
RIFF == << 82, 73, 70, 70 >>
WAVE == << 87, 65, 86, 69 >>
FMT == << 102, 109, 116, 32 >>
DATA == << 100, 97, 116, 97 >>

\* The buffer with bytes written from byte offset `offset` on (offsets count
\* from 0, sequences from 1).
Write(buffer, offset, bytes) ==
    [i \in DOMAIN buffer |->
        IF offset < i /\ i <= offset + Len(bytes) THEN bytes[i - offset] ELSE buffer[i]]

\* line 201 with the size of the whole file in place of the size that follows
RiffSizeWholeFile(len) == 44 + len

\* line 201: the RIFF chunk size, 36 + pcmData.length
RiffSize(len) == 36 + len

\* line 208 with the sample rate written where the byte rate belongs
ByteRateUnscaled(w) == w

\* line 208: the byte rate, sampleRate * 2
ByteRate(w) == Twice(w)

createWavBlob(pcm, rate) ==
    LET b0  == [i \in 1..(44 + Len(pcm)) |-> 0]
        b1  == Write(b0, 0, RIFF)
        b2  == Write(b1, 4, Uint32LE(Halves(RiffSize(Len(pcm)))))
        b3  == Write(b2, 8, WAVE)
        b4  == Write(b3, 12, FMT)
        b5  == Write(b4, 16, Uint32LE(Halves(16)))
        b6  == Write(b5, 20, Uint16LE(1))
        b7  == Write(b6, 22, Uint16LE(1))
        b8  == Write(b7, 24, Uint32LE(rate))
        b9  == Write(b8, 28, Uint32LE(ByteRate(rate)))
        b10 == Write(b9, 32, Uint16LE(2))
        b11 == Write(b10, 34, Uint16LE(16))
        b12 == Write(b11, 36, DATA)
        b13 == Write(b12, 40, Uint32LE(Halves(Len(pcm))))
    IN  Write(b13, 44, pcm)

\* The payloads and the sample rates createWavBlob is applied to: every byte
\* sequence up to MaxPayload bytes over two byte values; the rate the program
\* passes (24000, line 183), two other common rates, and the rates around the
\* point where sampleRate * 2 leaves the 32-bit range.
PayloadBytes == {1, 255}
Payloads == UNION { [1..n -> PayloadBytes] : n \in 0..MaxPayload }
SampleRates == { Halves(8000), Halves(24000), Halves(48000),
                 [hi |-> 32767, lo |-> 65535], [hi |-> 32768, lo |-> 0],
                 [hi |-> 65535, lo |-> 65535] }

\* No call of createWavBlob is under way.
WavIdle == pcmData = << >> /\ sampleRate = Halves(24000) /\ wavBlob = << >>

WavInit ==
    /\ LiveInit
    /\ StudioInit
    /\ PanelInit
    /\ pcmData \in Payloads
    /\ sampleRate \in SampleRates
    /\ wavBlob = << >>

CreateWavBlob ==
    /\ wavBlob = << >>
    /\ wavBlob' = createWavBlob(pcmData, sampleRate)
    /\ UNCHANGED << pcmData, sampleRate, liveVars, studioVars, panelVars >>

NextWav == CreateWavBlob

\* createWavBlob applied once to an input drawn from Payloads x SampleRates.
SpecWav == WavInit /\ [][NextWav]_vars

----------------------------------------------------------------------------
\* One-shot playback: handleVoiceover (src/App.tsx lines 138-192) and
\* runCalibrationTest (src/components/VoiceProfileCard.tsx lines 93-123).

\* The PCM bytes a speech response decodes to: `if (audioData)` lets only a
\* non-empty base64 string through, so at least one byte.
TtsPayloads == { [i \in 1..n |-> 255] : n \in 1..MaxPayload }

\* the one-shot source started at the live relay's cursor, as lines 119-120 do
OneShotStartAtCursor ==
    /\ oneShotSources' = oneShotSources + 1
    /\ nextStartTimeRef' = nextStartTimeRef + 1
    /\ UNCHANGED sourcesRef

\* App.tsx lines 184-189, VoiceProfileCard.tsx lines 111-116: a new
\* AudioContext, a new source on it, source.start() with no start time.
OneShotStart ==
    /\ oneShotSources' = oneShotSources + 1
    /\ UNCHANGED << sourcesRef, nextStartTimeRef >>

\* The live relay's variables but the two the scheduler is made of.
liveButScheduler == << status, liveSessionRef, micStreamRef, outputAudioContextRef,
                       currentTime, sessions, chunks, clockLed >>

\* The scripts typed into the textarea: none, white space only, some words.
Scripts == {"", "  ", "words"}

\* String.prototype.trim on a script.
Trim(text) == IF text = "  " THEN "" ELSE text

\* The textarea's onChange (App.tsx line 312): setVoiceoverText(e.target.value).
SetVoiceoverText ==
    /\ \E text \in Scripts \ {voiceoverText} : voiceoverText' = text
    /\ UNCHANGED << isProcessing, detectedEmotion, lastAudioUrl, voiceoverCall,
                    isTesting, calibrationCall, oneShotSources, liveVars, wavVars,
                    panelVars >>

\* line 191 with the finally clause left out
FinallyMissing == UNCHANGED isProcessing

\* line 191: finally { setIsProcessing(false); }
Finally == isProcessing' = FALSE

\* The Render button (App.tsx line 314), disabled while isProcessing:
\* handleVoiceover, lines 139-150, up to the first generateContent await.  With
\* a blank script line 139 returns at once.
HandleVoiceover ==
    /\ ~isProcessing
    /\ oneShotSources < MaxOneShots
    /\ IF Trim(voiceoverText) = ""
         THEN UNCHANGED vars
         ELSE /\ isProcessing' = TRUE
              /\ detectedEmotion' = "null"
              /\ lastAudioUrl' = << >>
              /\ voiceoverCall' = "emotion"
              /\ UNCHANGED << isTesting, calibrationCall, oneShotSources,
                              liveVars, wavVars, panelVars, voiceoverText >>

\* The emotion request resolves: lines 154-169, up to the second await.
EmotionDone ==
    /\ voiceoverCall = "emotion"
    /\ detectedEmotion' = "emotion"
    /\ voiceoverCall' = "tts"
    /\ UNCHANGED << isProcessing, lastAudioUrl, isTesting, calibrationCall,
                    oneShotSources, liveVars, wavVars, panelVars, voiceoverText >>

\* The speech request resolves: lines 180-185.  Without audio the handler is
\* done (finally, line 191); with audio the WAV Blob of the decoded bytes becomes
\* lastAudioUrl and the handler suspends at decodeAudioData.
SpeechDone ==
    /\ voiceoverCall = "tts"
    /\ \/ /\ voiceoverCall' = "idle"
          /\ Finally
          /\ UNCHANGED lastAudioUrl
       \/ \E audioBytes \in TtsPayloads :
             /\ lastAudioUrl' = createWavBlob(audioBytes, Halves(24000))
             /\ voiceoverCall' = "decode"
             /\ UNCHANGED isProcessing
    /\ UNCHANGED << detectedEmotion, isTesting, calibrationCall, oneShotSources,
                    liveVars, wavVars, panelVars, voiceoverText >>

\* decodeAudioData resolves: lines 186-189 and the finally of line 191.
VoiceoverPlays ==
    /\ voiceoverCall = "decode"
    /\ OneShotStart
    /\ voiceoverCall' = "idle"
    /\ Finally
    /\ UNCHANGED << detectedEmotion, lastAudioUrl, isTesting, calibrationCall,
                    liveButScheduler, wavVars, panelVars, voiceoverText >>

\* A request rejects, or decode / decodeAudioData throws: the catch and the
\* finally of line 191.
VoiceoverFails ==
    /\ voiceoverCall # "idle"
    /\ voiceoverCall' = "idle"
    /\ Finally
    /\ UNCHANGED << detectedEmotion, lastAudioUrl, isTesting, calibrationCall,
                    oneShotSources, liveVars, wavVars, panelVars, voiceoverText >>

\* The Test Clone button (VoiceProfileCard.tsx line 206), rendered for a profile
\* that has an analysis, disabled while isTesting: runCalibrationTest, lines
\* 94-98, up to the generateContent await.
RunCalibrationTest ==
    /\ ~isTesting
    /\ oneShotSources < MaxOneShots
    /\ isTesting' = TRUE
    /\ calibrationCall' = "tts"
    /\ UNCHANGED << isProcessing, detectedEmotion, lastAudioUrl, voiceoverCall,
                    oneShotSources, liveVars, wavVars, panelVars, voiceoverText >>

\* The speech request resolves: lines 108-112.  Without audio the handler is
\* done (finally, line 120); with audio it suspends at decodeAudioData.
CalibrationSpeechDone ==
    /\ calibrationCall = "tts"
    /\ \/ calibrationCall' = "idle" /\ isTesting' = FALSE
       \/ calibrationCall' = "decode" /\ UNCHANGED isTesting
    /\ UNCHANGED << isProcessing, detectedEmotion, lastAudioUrl, voiceoverCall,
                    oneShotSources, liveVars, wavVars, panelVars, voiceoverText >>

\* decodeAudioData resolves: lines 113-116 and the finally of line 120.
CalibrationPlays ==
    /\ calibrationCall = "decode"
    /\ OneShotStart
    /\ calibrationCall' = "idle"
    /\ isTesting' = FALSE
    /\ UNCHANGED << isProcessing, detectedEmotion, lastAudioUrl, voiceoverCall,
                    liveButScheduler, wavVars, panelVars, voiceoverText >>

\* The request rejects, or decode / decodeAudioData throws: the catch and the
\* finally of lines 117-121.
CalibrationFails ==
    /\ calibrationCall # "idle"
    /\ calibrationCall' = "idle"
    /\ isTesting' = FALSE
    /\ UNCHANGED << isProcessing, detectedEmotion, lastAudioUrl, voiceoverCall,
                    oneShotSources, liveVars, wavVars, panelVars, voiceoverText >>

StudioEvents ==
    \/ SetVoiceoverText
    \/ HandleVoiceover
    \/ EmotionDone
    \/ SpeechDone
    \/ VoiceoverPlays
    \/ VoiceoverFails
    \/ RunCalibrationTest
    \/ CalibrationSpeechDone
    \/ CalibrationPlays
    \/ CalibrationFails

\* A chunk is delivered while no other chunk is being decoded or played.
OnMessageAlone ==
    /\ \A k \in DOMAIN chunks : chunks[k].st = "stopped"
    /\ OnMessage

\* The steps of a live session that runs, without a failure, at one instant of
\* the device clock and with one chunk at a time, while the Studio and the
\* profile card are used.
LiveEventsInStudio ==
    \/ StartLiveSession(MaxSessions)
    \/ MicGranted
    \/ OnOpen
    \/ SessionResolved
    \/ OnMessageAlone
    \/ DecodeDone
    \/ StopLiveSession

\* The style buttons of the Studio: App.tsx line 30 and toggleStyle, lines 75-88.

\* prev.filter(s => s !== style)
Without(prev, style) == SelectSeq(prev, LAMBDA s : s # style)

\* filtered.includes(style)
Includes(list, style) == \E i \in DOMAIN list : list[i] = style

\* line 84 returning next even when it is empty
AfterRemovalMayBeEmpty(next) == next

\* line 84: return next.length === 0 ? [VoiceStyle.NEUTRAL] : next
AfterRemoval(next) == IF Len(next) = 0 THEN << NEUTRAL >> ELSE next

\* The state that toggleStyle(style) leaves, lines 76-87.
toggleStyle(prev, style) ==
    IF style = NEUTRAL
      THEN << NEUTRAL >>
      ELSE LET filtered == Without(prev, NEUTRAL)
           IN  IF Includes(filtered, style)
                 THEN AfterRemoval(Without(filtered, style))
                 ELSE Append(filtered, style)

\* The styles that have a button (App.tsx line 289).
StyleButtons == VoiceStyle \ {"Combination"}

\* A style button is clicked (App.tsx line 290).
ToggleStyle ==
    /\ \E style \in StyleButtons :
          /\ activeStyles' = toggleStyle(activeStyles, style)
          /\ toggled' = style
    /\ UNCHANGED << liveVars, wavVars, studioVars, profileVars >>

----------------------------------------------------------------------------
\* The profile registry of src/components/VoiceProfileCard.tsx: savedProfiles
\* (line 21), the effect that loads it (lines 22-32), saveToLocalStorage (lines
\* 34-37), saveCurrentProfile (lines 125-138) and deleteProfile (lines 140-144).
\* A profile is its id and its savedAt; the other fields are carried along.

Ids == 1..MaxIds

\* JSON.stringify of a list of profiles: the text, one << id, savedAt >> pair
\* per profile, in order.
Stringify(profiles) == [i \in DOMAIN profiles |-> << profiles[i].id, profiles[i].savedAt >>]

\* JSON.parse of such a text.
Parse(text) == [i \in DOMAIN text |-> [id |-> text[i][1], savedAt |-> text[i][2]]]

\* The registries with unique ids, none saved after time 0.
RECURSIVE Registries(_)
Registries(ids) ==
    {<< >>} \cup UNION { { << [id |-> i, savedAt |-> 0] >> \o r : r \in Registries(ids \ {i}) } : i \in ids }

\* The card is constructed over a store that holds a registry with unique ids.
ProfilesInit ==
    /\ savedProfiles = << >>
    /\ localStorage \in { Stringify(r) : r \in Registries(Ids) }
    /\ profile = 0
    /\ dateNow = 0
    /\ mounted = FALSE

\* The effect of lines 22-32: a stored text is parsed into savedProfiles.
LoadProfiles ==
    /\ ~mounted
    /\ mounted' = TRUE
    /\ savedProfiles' = IF localStorage # << >> THEN Parse(localStorage) ELSE savedProfiles
    /\ UNCHANGED << localStorage, profile, dateNow, liveVars, wavVars, studioVars,
                    activeStyles, toggled >>

\* onProfileChange: a new recording (line 43, a fresh id) or a profile picked in
\* the list (line 172) becomes the current profile.
ChangeProfile ==
    /\ mounted
    /\ \E id \in Ids \ {profile} : profile' = id
    /\ UNCHANGED << savedProfiles, localStorage, dateNow, mounted, liveVars, wavVars,
                    studioVars, activeStyles, toggled >>

\* The index findIndex returns (line 128), 0 for -1.
FindIndex(profiles, id) ==
    IF \E i \in DOMAIN profiles : profiles[i].id = id
      THEN CHOOSE i \in DOMAIN profiles :
              /\ profiles[i].id = id
              /\ \A j \in DOMAIN profiles : profiles[j].id = id => i <= j
      ELSE 0

\* lines 129-135 without the findIndex branch: the profile always prepended
UpdatedByPrepending(profiles, newProfile) == << newProfile >> \o profiles

\* lines 128-135: the list saveCurrentProfile stores.
Updated(profiles, newProfile) ==
    LET exists == FindIndex(profiles, newProfile.id)
    IN  IF exists > 0
          THEN [profiles EXCEPT ![exists] = newProfile]
          ELSE << newProfile >> \o profiles

\* saveToLocalStorage, lines 34-37.  localStorage.setItem may throw (the store
\* is full): then line 36 is not reached and nothing changes.
SaveToLocalStorage(profiles) ==
    \/ /\ localStorage' = Stringify(profiles)
       /\ savedProfiles' = profiles
    \/ UNCHANGED << localStorage, savedProfiles >>

\* The Archive button (line 209): saveCurrentProfile, lines 125-138.
SaveCurrentProfile ==
    /\ mounted
    /\ profile # 0
    /\ dateNow < MaxSaves
    /\ dateNow' = dateNow + 1
    /\ SaveToLocalStorage(Updated(savedProfiles, [id |-> profile, savedAt |-> dateNow']))
    /\ UNCHANGED << profile, mounted, liveVars, wavVars, studioVars,
                    activeStyles, toggled >>

\* The delete button of a listed profile (line 173ff): deleteProfile, lines
\* 140-144.
DeleteProfile ==
    /\ mounted
    /\ \E i \in DOMAIN savedProfiles :
          SaveToLocalStorage(SelectSeq(savedProfiles,
                                       LAMBDA p : p.id # savedProfiles[i].id))
    /\ UNCHANGED << profile, dateNow, mounted, liveVars, wavVars, studioVars,
                    activeStyles, toggled >>

NextProfiles == LoadProfiles \/ ChangeProfile \/ SaveCurrentProfile \/ DeleteProfile

\* The profile card over a store that holds a registry with unique ids.
InitProfiles == LiveInit /\ WavIdle /\ StudioInit /\ StylesInit /\ ProfilesInit

SpecProfiles == InitProfiles /\ [][NextProfiles]_vars

Init == LiveInit /\ WavIdle /\ StudioInit /\ PanelInit

Next == StartLiveSession(MaxSessions) \/ Events

Spec == Init /\ [][Next]_vars

\* The same program with one more start of a session allowed.
NextRestart == StartLiveSession(MaxSessions + 1) \/ Events

SpecRestart == Init /\ [][NextRestart]_vars

NextStudio == StudioEvents \/ LiveEventsInStudio

\* The live session of SpecStudio with the device clock running and
\* stopLiveSession called in whatever state, as a caller other than the Sever
\* Link button would.
NextReset == LiveEventsInStudio \/ Tick \/ StopLiveSessionCall

SpecReset == Init /\ [][NextReset]_vars

\* Sessions started one after another, each of which may fail to start, be
\* closed or break, at one instant of the device clock and with one chunk at a
\* time.
NextRetry ==
    \/ StartLiveSession(MaxSessions + 1)
    \/ MicGranted
    \/ MicDenied
    \/ ConnectRejected
    \/ OnOpen
    \/ SessionResolved
    \/ OnError
    \/ OnClose
    \/ OnMessageAlone
    \/ DecodeDone
    \/ StopLiveSession

SpecRetry == Init /\ [][NextRetry]_vars

NextStyles == ToggleStyle

\* Any sequence of clicks on the style buttons.
SpecStyles == Init /\ [][NextStyles]_vars

\* The steps that end an await of handleVoiceover.
VoiceoverSettles == EmotionDone \/ SpeechDone \/ VoiceoverPlays \/ VoiceoverFails

\* The Studio and the profile card alone, every pending await of handleVoiceover
\* settling in the end (each request resolves or rejects, each decode ends).
SpecVoiceover == Init /\ [][StudioEvents]_vars /\ WF_vars(VoiceoverSettles)

\* One-shot playback next to a live session.
SpecStudio == Init /\ [][NextStudio]_vars

----------------------------------------------------------------------------
\* Properties.

\* The interval [start, start + duration) handed to source k.
Start(k) == chunks[k].when
End(k) == chunks[k].when + chunks[k].dur

RECURSIVE SumDur(_)
SumDur(S) == IF S = {} THEN 0
             ELSE LET k == CHOOSE x \in S : TRUE
                  IN  chunks[k].dur + SumDur(S \ {k})

\* The other sources scheduled since the last reset that start no later than
\* source k.
Earlier(k) == { j \in sourcesRef \ {k} : Start(j) <= Start(k) }

\* C1: in a session that starts with the cursor at 0, as long as no chunk
\* arrived with the device clock ahead of the cursor, the start time given to
\* each source is the sum of the durations of the sources scheduled before it.
C1_StartIsSumOfEarlierDurations ==
    ~clockLed => \A k \in sourcesRef : Start(k) = SumDur(Earlier(k))

\* C1 witness: two chunks were scheduled one after another, the second one
\* starting exactly where the first one ends.
C1_Witness ==
    /\ ~clockLed
    /\ \E j, k \in sourcesRef :
          /\ Earlier(j) = {}
          /\ Earlier(k) = {j}
          /\ Start(k) = chunks[j].dur
          /\ chunks[j].dur = MaxDur

\* C2: no two sources of one session are sounding at the same instant.
C2_NoTwoSourcesSoundTogether ==
    \A j, k \in DOMAIN chunks :
        (j # k /\ chunks[j].sess = chunks[k].sess)
            => ~(SoundingAt(chunks[j], currentTime) /\ SoundingAt(chunks[k], currentTime))

\* The intervals handed to the sources scheduled since the last reset.
Disjoint ==
    \A j, k \in sourcesRef : j # k => (End(j) <= Start(k) \/ End(k) <= Start(j))

\* Every source but the earliest starts where another one ends.
Contiguous ==
    \A k \in sourcesRef : Earlier(k) # {} => \E j \in sourcesRef : End(j) = Start(k)

\* C3 as stated: whatever order the decodes complete in, the intervals handed to
\* the sources are pairwise disjoint and contiguous.
C3_DisjointAndContiguous == Disjoint /\ Contiguous

\* C3 as amended: whatever order the decodes complete in, the intervals handed
\* to the sources scheduled since the last reset are pairwise disjoint, and they
\* are contiguous as long as no chunk arrived with the device clock ahead of the
\* cursor.
C3_DisjointAndContiguousUnlessClockLed == Disjoint /\ (~clockLed => Contiguous)

\* C3 witness: two handlers were suspended in decode together and the later
\* arrival completed first; their sources sit back to back.
C3_Witness ==
    /\ ~clockLed
    /\ \E j, k \in sourcesRef : j < k /\ End(k) = Start(j)

\* C4: at the moment a source is started, the start time passed to it is not
\* before the device clock.
C4_NeverScheduledInThePast ==
    [][\A k \in DOMAIN chunks :
          (k \in Suspended /\ chunks'[k].st = "playing")
              => chunks'[k].when >= currentTime]_vars

\* C5: after stopLiveSession has run, no session is left open.
C5_StopLeavesNoSessionOpen ==
    [][StopLiveSession => \A i \in DOMAIN sessions : sessions'[i].conn # "open"]_vars

\* The scheduler as it is after construction and after a reset.
Zeroed == sourcesRef = {} /\ nextStartTimeRef = 0

\* C6: once the scheduler is zeroed and every handler still suspended in decode
\* dates from before the teardown, it stays zeroed until a chunk is delivered.
C6_TeardownLeavesSchedulerZeroed ==
    [][(/\ Zeroed
        /\ \A k \in DOMAIN chunks : chunks[k].st # "decoding"
        /\ Len(chunks') = Len(chunks)) => Zeroed']_vars

\* C7: a source that has finished playing is no longer in activeSources.
C7_FinishedSourcesLeaveTheSet ==
    \A k \in sourcesRef : ~Finished(chunks[k])

\* C8: stopLiveSession stops every member of activeSources that is still
\* playing, empties the set and zeroes the cursor, however many stop() calls
\* throw.
C8_ResetAlwaysCompletesZeroed ==
    [][StopLiveSession =>
          /\ sourcesRef' = {}
          /\ nextStartTimeRef' = 0
          /\ \A k \in sourcesRef :
                ~Finished(chunks[k]) => chunks'[k].st = "stopped"]_vars

\* C8 witness: a reset has run in which one stop() threw (the source had ended)
\* and another source was stopped.
C8_Witness ==
    /\ Zeroed
    /\ \E j, k \in DOMAIN chunks :
          /\ chunks[j].st = "ended"
          /\ chunks[k].st = "stopped"

\* C9: the cursor is 0 when a session is started and when a session has ended,
\* however it ended.
C9_CursorZeroAtSessionStartAndEnd ==
    [][(\/ Len(sessions') > Len(sessions)
        \/ \E i \in DOMAIN sessions :
              /\ sessions[i].conn \in {"connecting", "open", "closing"}
              /\ sessions'[i].conn = "closed") => nextStartTimeRef' = 0]_vars

\* C10: at most one session at a time is open and able to deliver chunks.
C10_AtMostOneOpenSession ==
    Cardinality({ i \in DOMAIN sessions : sessions[i].conn = "open" }) <= 1

\* C11: every step other than a reset (stopLiveSession) leaves the cursor
\* greater than or equal to its previous value.
C11_CursorNeverDecreasesButByReset ==
    [][StopLiveSession \/ nextStartTimeRef' >= nextStartTimeRef]_vars

\* C11 witness: the cursor was raised both ways, by the clock at an arrival and
\* by the duration of a scheduled source, and stands above the clock.
C11_Witness ==
    /\ clockLed
    /\ sourcesRef # {}
    /\ nextStartTimeRef > currentTime
    /\ currentTime > 0

\* C12: in a fresh session, as long as every chunk arrived with the device
\* clock at or below the cursor, the cursor equals the sum of the durations of
\* the sources scheduled so far.
C12_CursorIsSumOfScheduledDurations ==
    ~clockLed => nextStartTimeRef = SumDur(sourcesRef)

\* C12 witness: two chunks of different durations were scheduled with the clock
\* never ahead of the cursor, and the cursor stands at their sum.
C12_Witness ==
    /\ ~clockLed
    /\ \E j, k \in sourcesRef : chunks[j].dur = 1 /\ chunks[k].dur = MaxDur /\ j # k
    /\ nextStartTimeRef = 1 + MaxDur

\* C13: stopLiveSession, called in whatever state, completes with the cursor
\* at 0, the set empty, no handle stored and the status DISCONNECTED; called when
\* the set is empty and no handle is stored (as the second of two calls in a
\* row is) it closes no session and stops no source.
C13_ResetIsIdempotent ==
    [][StopLiveSessionCall =>
          /\ Zeroed' /\ liveSessionRef' = 0 /\ status' = "DISCONNECTED"
          /\ (sourcesRef = {} /\ liveSessionRef = 0) =>
                /\ sessions' = sessions
                /\ \A k \in DOMAIN chunks :
                      chunks'[k].st \in {"stopped", "ended"} => chunks'[k] = chunks[k]]_vars

\* C13 witness: a reset has run (it closed a session and stopped a source) and
\* left the state in which a second call finds nothing to do.
C13_Witness ==
    /\ Zeroed /\ liveSessionRef = 0 /\ status = "DISCONNECTED"
    /\ \E i \in DOMAIN sessions : sessions[i].conn = "closing"
    /\ \E k \in DOMAIN chunks : chunks[k].st = "stopped"

\* C14: a handler whose decode fails leaves the cursor and activeSources as they
\* were when the handler began, and starts no source.
C14_FailedDecodeChangesNothing ==
    [][OnMessageDecodeThrows =>
          /\ nextStartTimeRef' = nextStartTimeRef
          /\ sourcesRef' = sourcesRef
          /\ \A k \in DOMAIN chunks' : chunks'[k].st = "playing" =>
                (k \in DOMAIN chunks /\ chunks[k].st = "playing")]_vars

\* The unsigned 16-bit and 32-bit values read back from the Blob at a byte
\* offset, least significant byte first.
Uint16At(b, offset) == b[offset + 1] + 256 * b[offset + 2]
Uint32At(b, offset) == [hi |-> Uint16At(b, offset + 2), lo |-> Uint16At(b, offset)]

\* C15: for a payload of any length L, 0 included, createWavBlob returns
\* 44 + L bytes, with 36 + L at offset 4, L at offset 40 and the payload
\* unchanged from offset 44 on.
C15_ContainerSizeAndPayload ==
    wavBlob # << >> =>
        LET L == Len(pcmData) IN
        /\ Len(wavBlob) = 44 + L
        /\ Uint32At(wavBlob, 4) = [hi |-> 0, lo |-> 36 + L]
        /\ Uint32At(wavBlob, 40) = [hi |-> 0, lo |-> L]
        /\ \A i \in 1..L : wavBlob[44 + i] = pcmData[i]

\* C15 witness: createWavBlob has run on the empty payload and returned
\* exactly 44 bytes with declared sizes 36 and 0.
C15_Witness ==
    /\ pcmData = << >>
    /\ Len(wavBlob) = 44
    /\ Uint32At(wavBlob, 4).lo = 36
    /\ Uint32At(wavBlob, 40).lo = 0

\* The fields of the format sub-chunk but the byte rate: format tag 1, one
\* channel, the sample rate, block align 2, 16 bits per sample.
FormatFields ==
    /\ Uint16At(wavBlob, 20) = 1
    /\ Uint16At(wavBlob, 22) = 1
    /\ Uint32At(wavBlob, 24) = sampleRate
    /\ Uint16At(wavBlob, 32) = 2
    /\ Uint16At(wavBlob, 34) = 16

C17_EmittedPayloadIsEven ==
    wavBlob # << >> =>
        /\ (Len(wavBlob) - 44) % 2 = 0
        /\ Uint32At(wavBlob, 40).lo % 2 = 0

\* C18: every live-session source that has been started and on which
\* stopLiveSession has not called stop() is a member of activeSources.
C18_StartedSourcesAreTracked ==
    \A k \in DOMAIN chunks : chunks[k].st = "playing" => k \in sourcesRef

\* C18 witness: a teardown stopped a source, and a source started after it is
\* in the set.
C18_Witness ==
    \E j, k \in DOMAIN chunks :
        /\ chunks[j].st = "stopped"
        /\ chunks[k].st = "playing"
        /\ k \in sourcesRef

\* C19: when getUserMedia or the connect call fails inside startLiveSession,
\* the status becomes ERROR, no session handle is stored, and the cursor and
\* activeSources are left as they were.
C19_FailedStartLeavesSchedulerAlone ==
    [][(MicDenied \/ ConnectRejected) =>
          /\ status' = "ERROR"
          /\ liveSessionRef' = liveSessionRef
          /\ nextStartTimeRef' = nextStartTimeRef
          /\ sourcesRef' = sourcesRef]_vars

\* C19 witness: the second start of a session failed, with the sources and the
\* cursor of the first session still in place.
C19_Witness ==
    /\ status = "ERROR"
    /\ Len(sessions) = 2
    /\ sessions[2] = Dead
    /\ sourcesRef # {}
    /\ nextStartTimeRef > 0

\* C20: no step of handleVoiceover or of runCalibrationTest, successful or
\* failing, changes the cursor, activeSources or the live session handle, and
\* stopLiveSession stops none of their sources.
C20_OneShotPlaybackLeavesSchedulerAlone ==
    [][/\ studioVars' # studioVars =>
             /\ nextStartTimeRef' = nextStartTimeRef
             /\ sourcesRef' = sourcesRef
             /\ liveSessionRef' = liveSessionRef
       /\ StopLiveSession => oneShotSources' = oneShotSources]_vars

\* C20 witness: a voiceover has been rendered and its source started while a
\* live session holds a handle, a scheduled source and an advanced cursor.
C20_Witness ==
    /\ oneShotSources > 0
    /\ lastAudioUrl # << >>
    /\ ~isProcessing
    /\ liveSessionRef # 0
    /\ sourcesRef # {}
    /\ nextStartTimeRef > 0

\* C21: a handleVoiceover invocation with a non-blank script sets isProcessing
\* to true and isProcessing is eventually false again, whatever the remote calls
\* do; with a blank script nothing sets isProcessing, detectedEmotion or
\* lastAudioUrl.
C21_ProcessingAlwaysEnds ==
    /\ [][/\ (voiceoverCall = "idle" /\ voiceoverCall' # "idle") =>
               (voiceoverText \notin {"", "  "} /\ isProcessing')
          /\ (voiceoverCall = "idle" /\ voiceoverText \in {"", "  "}) =>
               UNCHANGED << isProcessing, detectedEmotion, lastAudioUrl, voiceoverCall >>]_vars
    /\ (isProcessing ~> ~isProcessing)

\* C21 witness: an invocation has run to its end with audio: the Blob is in
\* place, the source started and isProcessing is false again.
C21_Witness ==
    /\ ~isProcessing
    /\ voiceoverCall = "idle"
    /\ detectedEmotion = "emotion"
    /\ lastAudioUrl # << >>
    /\ oneShotSources > 0

\* C22: after any sequence of toggleStyle calls from [NEUTRAL], activeStyles
\* is non-empty, has no duplicate and holds NEUTRAL only as its sole element;
\* toggling NEUTRAL yields [NEUTRAL], and so does removing the last non-neutral
\* style.
C22_ActiveStylesWellFormed ==
    /\ [](/\ Len(activeStyles) > 0
          /\ \A i, j \in DOMAIN activeStyles :
                activeStyles[i] = activeStyles[j] => i = j
          /\ Includes(activeStyles, NEUTRAL) => activeStyles = << NEUTRAL >>
          /\ toggled = NEUTRAL => activeStyles = << NEUTRAL >>)
    /\ [][(Len(activeStyles) = 1 /\ toggled' = activeStyles[1]) =>
              activeStyles' = << NEUTRAL >>]_vars

\* C22 witness: the only style switched on was switched off again, and the
\* list is [NEUTRAL].
C22_Witness ==
    /\ activeStyles = << NEUTRAL >>
    /\ toggled = "Happy"

\* The ids of a list of profiles, in order.
IdsOf(profiles) == [i \in DOMAIN profiles |-> profiles[i].id]

\* C23: from a registry with unique ids, after any sequence of
\* saveCurrentProfile and deleteProfile calls no two saved profiles have the
\* same id and the stored text is the in-memory list; a save of an id that is
\* present replaces that entry in place, a save of another id prepends, a
\* delete removes every entry with the id.
C23_RegistryKeepsUniqueIds ==
    /\ [](/\ \A i, j \in DOMAIN savedProfiles :
                savedProfiles[i].id = savedProfiles[j].id => i = j
          /\ mounted => Parse(localStorage) = savedProfiles)
    /\ [][(dateNow' # dateNow /\ savedProfiles' # savedProfiles) =>
              IF \E i \in DOMAIN savedProfiles : savedProfiles[i].id = profile
                THEN /\ IdsOf(savedProfiles') = IdsOf(savedProfiles)
                     /\ \A i \in DOMAIN savedProfiles :
                           savedProfiles'[i] =
                              IF savedProfiles[i].id = profile
                                THEN [id |-> profile, savedAt |-> dateNow']
                                ELSE savedProfiles[i]
                ELSE savedProfiles' =
                        << [id |-> profile, savedAt |-> dateNow'] >> \o savedProfiles]_vars
    /\ [][(mounted /\ dateNow' = dateNow /\ savedProfiles' # savedProfiles) =>
              \E id \in Ids :
                  /\ \A i \in DOMAIN savedProfiles' : savedProfiles'[i].id # id
                  /\ savedProfiles' = SelectSeq(savedProfiles, LAMBDA p : p.id # id)]_vars

\* C23 witness: a profile that was in the store from the start has been saved
\* again, in place behind a profile saved before it, and the store holds the
\* same list.
C23_Witness ==
    /\ Len(savedProfiles) = 2
    /\ savedProfiles[1].savedAt = 1
    /\ savedProfiles[2].savedAt = 2
    /\ Parse(localStorage) = savedProfiles

====
